---- MODULE Spec2Model ----
(***************************************************************************)
(* A connection pool built on a buffered channel (fatih/pool and the fork  *)
(* that adds a wrapper with auto-return and an active-connection limiter). *)
(*                                                                         *)
(* The pool is a pointer `conns` to one buffered channel, a `factory`      *)
(* reference and a mutex `mu`.  Workers call Get, use the wrapper they got *)
(* (MarkUnusable, Close), and call Close on the pool.  Every operation is  *)
(* cut into the steps at which another goroutine can interleave.           *)
(***************************************************************************)
EXTENDS Integers, Sequences, FiniteSets, TLC

\* ---------------------------------------------------------------- bounds
\* factory invocations a run may make
MaxCalls == 3
\* largest maxCap and maxActive of the pools the workers run on
MaxCapArg == 1
MaxActiveArg == 1
\* largest argument the constructor alone is tried with
MaxCtorArg == 3
\* largest maxCap of the fresh pools whose callers only Get and close
MaxFreshCap == 2
\* lost connections the consumers may signal to the supervisor
MaxSignals == 2

\* the worker goroutines
Procs == {"w1", "w2"}
NoProc == "none"
\* the goroutine of CheckReconnect
Sup == "sup"
AllProcs == Procs \cup {Sup}

\* the connections: those of the constructor and of Get (the k-th factory call
\* of theirs makes connection k), then those the supervisor's Reconnect adds
ConnIds == 1..(MaxCalls + MaxSignals)
\* a nil net.Conn
NoConn == 0
\* a connection no factory call has returned yet
NotMade == 0 - 1

VARIABLES
    phase,      \* "new" before the constructor ran, then "built" or "failed"
    args,       \* the constructor's arguments
    newErr,     \* the constructor's error
    conns,      \* c.conns: "ch" or "nil"
    factory,    \* c.factory is set
    buf,        \* the channel's buffer: connection ids, oldest first
    chClosed,   \* close(conns) was executed on the channel
    mu,         \* c.mu: NoProc when free, else the goroutine holding it
    active,     \* limiter slots taken
    calls,      \* factory invocations so far; the k-th creates connection k
    closes,     \* per connection: NotMade, or the times its raw Close() ran
                \* (2: twice or more)
    pc,         \* per worker: the step it is at
    wconn,      \* per worker: the connection its wrapper decorates, 0: no wrapper
    wbad,       \* per worker: the wrapper's unusable flag
    wcl,        \* per worker: Close() has been called on the wrapper
    err,        \* per worker: what the call that just returned returned
    crashed,    \* "no", or the panic that ended the process
    closeReturned,  \* history: some call of the pool's Close() has returned
    trk,        \* history: the worker whose call ran with no step of another
                \* goroutine in between, and Len() and LenActive() before it
    idx,        \* per goroutine: the index i of the loop it is in
    count,      \* CheckReconnect: the batch size it received
    need_reconnect, \* CheckReconnect: replacements that failed and wait for the timer
    reconn_chan,    \* the supervisor's signal channel: the counts queued, oldest first
    signalled,  \* history: lost connections the consumers have signalled
    reconnected \* history: Reconnect calls that returned no error

vars == <<phase, args, newErr, conns, factory, buf, chClosed, mu, active, calls,
          closes, pc, wconn, wbad, wcl, err, crashed, closeReturned, trk,
          idx, count, need_reconnect, reconn_chan, signalled, reconnected>>

poolVars == <<conns, factory, buf, chClosed, mu, active, calls, closes>>
newVars == <<phase, args, newErr>>
wrapVars == <<wconn, wbad, wcl>>
\* the loops: Destroy's index and the state of the supervisor
loopVars == <<idx, count, need_reconnect, reconn_chan, signalled, reconnected>>

\* ------------------------------------------------------------- helpers
Min(a, b) == IF a < b THEN a ELSE b

\* a fill loop that makes the connections and sends none
IotaNone(n) == <<>>

\* 1..n as a sequence
Iota(n) == [i \in 1..n |-> i]

\* len(c.getConns()): a nil channel has length 0
PoolLen == IF conns = "nil" THEN 0 ELSE Len(buf)

\* cap(c.getConns())
PoolCap == IF conns = "nil" THEN 0 ELSE args.maxCap

\* LenActive(): the limiter's slots in use
LenActive == active

LimiterOn == args.maxActive > 0

\* a Close() of the raw connection that does nothing
NotClosed(cl, c) == cl

\* raw connection Close(): counted, saturating at 2
Closed(cl, c) == [cl EXCEPT ![c] = Min(cl[c] + 1, 2)]

\* a release that gives no slot back
ReleaseNone(a) == a

\* limiter release: one slot given back
Release(a) == IF LimiterOn /\ a > 0 THEN a - 1 ELSE a

\* the capacity check without `initialCap > maxCap`
InvalidCapacityNoUpper(ic, mc) == ic < 0 \/ mc <= 0

\* if initialCap < 0 || maxCap <= 0 || initialCap > maxCap
InvalidCapacity(ic, mc) == ic < 0 \/ mc <= 0 \/ ic > mc

\* the limiter's capacity check: maxActive, when set, is at least maxCap
InvalidActive(ma, mc) == ma > 0 /\ ma < mc

\* ------------------------------------------------- history of one worker
NoTrk == [who |-> NoProc, pre |-> 0, act |-> 0, done |-> FALSE]
\* p enters Get on an open pool, or Reconnect: Len() and LenActive() at that moment
TrkStart(p) == [who |-> p, pre |-> PoolLen, act |-> LenActive, done |-> FALSE]
\* p takes a step of its Get or of its wrapper's Close
TrkStep(p) == IF trk.who = p /\ ~trk.done THEN trk ELSE NoTrk
\* p's put has decided
TrkDone(p) == IF trk.who = p /\ ~trk.done THEN [trk EXCEPT !.done = TRUE] ELSE NoTrk

Init ==
    /\ phase = "new"
    /\ args = [initialCap |-> 0, maxCap |-> 0, maxActive |-> 0]
    /\ newErr = "none"
    /\ conns = "nil"
    /\ factory = FALSE
    /\ buf = <<>>
    /\ chClosed = FALSE
    /\ mu = NoProc
    /\ active = 0
    /\ calls = 0
    /\ closes = [c \in ConnIds |-> NotMade]
    /\ pc = [p \in AllProcs |-> "idle"]
    /\ wconn = [p \in AllProcs |-> NoConn]
    /\ wbad = [p \in AllProcs |-> FALSE]
    /\ wcl = [p \in AllProcs |-> FALSE]
    /\ err = [p \in AllProcs |-> "none"]
    /\ crashed = "no"
    /\ closeReturned = FALSE
    /\ trk = NoTrk
    /\ idx = [p \in AllProcs |-> 0]
    /\ count = 0
    /\ need_reconnect = 0
    /\ reconn_chan = <<>>
    /\ signalled = 0
    /\ reconnected = 0

\* --------------------------------------------------------- constructor
\* The constructor, its capacity check passed in as `invalid`.  failAt = 0 when
\* every factory call succeeds, else the number of the call that fails: the
\* connections made before it are closed by c.Close() and no pool is returned.
NewPool(ic, mc, ma, failAt, invalid) ==
    /\ phase = "new"
    /\ args' = [initialCap |-> ic, maxCap |-> mc, maxActive |-> ma]
    /\ UNCHANGED <<chClosed, mu, pc, wconn, wbad, wcl, err, crashed,
                   closeReturned, trk>>
    /\ IF invalid
       THEN /\ phase' = "failed"
            /\ newErr' = "InvalidCapacity"
            /\ UNCHANGED <<conns, factory, buf, active, calls, closes>>
       ELSE IF failAt = 0
       THEN /\ phase' = "built"
            /\ newErr' = "none"
            /\ conns' = "ch"
            /\ factory' = TRUE
            /\ buf' = Iota(ic)
            /\ calls' = ic
            /\ active' = IF ma > 0 THEN ic ELSE 0
            /\ closes' = [c \in ConnIds |-> IF c <= ic THEN 0 ELSE NotMade]
       ELSE /\ phase' = "failed"
            /\ newErr' = "FactoryFillFailed"
            /\ conns' = "nil"
            /\ factory' = FALSE
            /\ buf' = <<>>
            /\ calls' = failAt
            /\ active' = 0
            /\ closes' = [c \in ConnIds |-> IF c < failAt THEN 1 ELSE NotMade]
    /\ UNCHANGED loopVars

\* the factory call of the constructor that fails: none (0), or one of the ic calls
FailAts(ic) == 0..(IF ic > 0 /\ ic <= MaxCalls THEN ic ELSE 0)

\* NewChannelPool(initialCap, maxCap, factory), for the pools the workers run on
NewChannelPool ==
    \E ic \in 0..MaxCapArg, mc \in 1..MaxCapArg :
        \E failAt \in FailAts(ic) :
            NewPool(ic, mc, 0, failAt, InvalidCapacity(ic, mc))

\* the constructor with the limiter's maxActive, for the pools the workers run on
NewLimitedPool ==
    \E ic \in 0..MaxCapArg, mc \in 1..MaxCapArg, ma \in 1..MaxActiveArg :
        \E failAt \in FailAts(ic) :
            NewPool(ic, mc, ma, failAt,
                    InvalidCapacity(ic, mc) \/ InvalidActive(ma, mc))

\* the constructor alone, on every argument from -1 to MaxCtorArg
NewAnyPool ==
    \E ic \in (0 - 1)..MaxCtorArg, mc \in (0 - 1)..MaxCtorArg, ma \in 0..MaxCtorArg :
        \E failAt \in FailAts(ic) :
            NewPool(ic, mc, ma, failAt,
                    InvalidCapacity(ic, mc) \/ InvalidActive(ma, mc))

\* the constructor without a limiter, on capacities up to MaxFreshCap
NewFreshPool ==
    \E ic \in 0..MaxFreshCap, mc \in 1..MaxFreshCap :
        \E failAt \in FailAts(ic) :
            NewPool(ic, mc, 0, failAt, InvalidCapacity(ic, mc))

\* ----------------------------------------------------------------- Get
Running == phase = "built" /\ crashed = "no"

\* conns := c.getConns(); if conns == nil { return nil, ErrClosed }
GetStart(p) ==
    /\ Running
    /\ pc[p] = "idle"
    /\ wconn[p] = NoConn
    /\ mu = NoProc
    /\ IF conns = "nil"
       THEN /\ err' = [err EXCEPT ![p] = "ErrClosed"]
            /\ pc' = [pc EXCEPT ![p] = "ret"]
       ELSE /\ pc' = [pc EXCEPT ![p] = "get_select"]
            /\ UNCHANGED err
    /\ UNCHANGED <<poolVars, newVars, wrapVars, crashed, closeReturned>>
    /\ trk' = IF conns = "nil" THEN NoTrk ELSE TrkStart(p)
    /\ UNCHANGED loopVars

\* select { case conn := <-conns: ... default: ... }
GetSelect(p) ==
    /\ Running
    /\ pc[p] = "get_select"
    /\ IF buf # <<>>
       THEN /\ buf' = Tail(buf)
            /\ wconn' = [wconn EXCEPT ![p] = Head(buf)]
            /\ wbad' = [wbad EXCEPT ![p] = FALSE]
            /\ wcl' = [wcl EXCEPT ![p] = FALSE]
            /\ err' = [err EXCEPT ![p] = "nil"]
            /\ pc' = [pc EXCEPT ![p] = "ret"]
       ELSE IF chClosed
       THEN /\ err' = [err EXCEPT ![p] = "ErrClosed"]
            /\ pc' = [pc EXCEPT ![p] = "ret"]
            /\ UNCHANGED <<buf, wrapVars>>
       ELSE /\ pc' = [pc EXCEPT ![p] = IF LimiterOn THEN "get_acquire" ELSE "get_factory"]
            /\ UNCHANGED <<buf, wrapVars, err>>
    /\ UNCHANGED <<conns, factory, chClosed, mu, active, calls, closes, newVars,
                   crashed, closeReturned>>
    /\ trk' = TrkStep(p)
    /\ UNCHANGED loopVars

\* tryOpen: take a limiter slot; when none is free the goroutine parks
\* ("get_blocked") until one is
GetAcquire(p) ==
    /\ Running
    /\ pc[p] \in {"get_acquire", "get_blocked"}
    /\ IF active < args.maxActive
       THEN /\ active' = active + 1
            /\ pc' = [pc EXCEPT ![p] = "get_factory"]
       ELSE /\ pc[p] = "get_acquire"
            /\ pc' = [pc EXCEPT ![p] = "get_blocked"]
            /\ UNCHANGED active
    /\ UNCHANGED <<conns, factory, buf, chClosed, mu, calls, closes, newVars,
                   wrapVars, err, crashed, closeReturned>>
    /\ trk' = TrkStep(p)
    /\ UNCHANGED loopVars

\* c.factory(): the field is read without the mutex.  After Close() cleared it
\* the read races with the write: it sees nil (a nil call panics) or the old value.
GetFactory(p, ok, stale) ==
    /\ Running
    /\ pc[p] = "get_factory"
    /\ calls < MaxCalls
    /\ IF ~factory /\ ~stale
       THEN /\ crashed' = "nil factory call"
            /\ UNCHANGED <<active, calls, closes, wrapVars, err, pc>>
       ELSE /\ calls' = calls + 1
            /\ pc' = [pc EXCEPT ![p] = "ret"]
            /\ UNCHANGED crashed
            /\ IF ok
               THEN /\ wconn' = [wconn EXCEPT ![p] = calls + 1]
                    /\ wbad' = [wbad EXCEPT ![p] = FALSE]
                    /\ wcl' = [wcl EXCEPT ![p] = FALSE]
                    /\ err' = [err EXCEPT ![p] = "nil"]
                    /\ closes' = [closes EXCEPT ![calls + 1] = 0]
                    /\ UNCHANGED active
               ELSE /\ err' = [err EXCEPT ![p] = "ErrFactory"]
                    /\ active' = Release(active)
                    /\ UNCHANGED <<wrapVars, closes>>
    /\ UNCHANGED <<conns, factory, buf, chClosed, mu, newVars,
                   closeReturned>>
    /\ trk' = IF ok /\ (factory \/ stale) THEN TrkStep(p) ELSE NoTrk
    /\ UNCHANGED loopVars

\* ------------------------------------------------------------- wrapper
MarkUnusable(p) ==
    /\ Running
    /\ pc[p] = "idle"
    /\ wconn[p] # NoConn
    /\ ~wbad[p]
    /\ ~wcl[p]
    /\ wbad' = [wbad EXCEPT ![p] = TRUE]
    /\ UNCHANGED <<poolVars, newVars, pc, wconn, wcl, err, crashed,
                   closeReturned>>
    /\ trk' = NoTrk
    /\ UNCHANGED loopVars

\* what a Read or Write of the raw connection returns: no error, a net.Error
\* whose Timeout() is true, a net.Error whose Timeout() is false, or an error
\* that is not a net.Error (io.EOF, for one)
IOResults == {"ok", "timeout", "neterror", "eof"}

\* terr, ok := err.(net.Error)
IsNetError(res) == res \in {"timeout", "neterror"}

\* if terr, ok := err.(net.Error); ok && !terr.Timeout() { p.MarkUnusable() }
MarksUnusable(res) == IsNetError(res) /\ res # "timeout"

\* PoolConn.Read / PoolConn.Write: the raw call, then the unusable flag
ReadWrite(p, res) ==
    /\ Running
    /\ pc[p] = "idle"
    /\ wconn[p] # NoConn
    /\ ~wcl[p]
    /\ wbad' = [wbad EXCEPT ![p] = wbad[p] \/ MarksUnusable(res)]
    /\ err' = [err EXCEPT ![p] = res]
    /\ pc' = [pc EXCEPT ![p] = "ret"]
    /\ UNCHANGED <<poolVars, newVars, wconn, wcl, crashed, closeReturned>>
    /\ trk' = NoTrk
    /\ UNCHANGED loopVars

\* a Close() that puts every connection back, unusable or not
CloseTargetAlwaysPut(bad) == "put_lock"

\* if p.unusable { return p.c.tryClose(p.Conn) }; return p.c.put(p.Conn)
CloseTarget(bad) == IF bad THEN "try_close" ELSE "put_lock"

\* PoolConn.Close: nothing records that the wrapper was closed before, so a
\* repeated Close() takes the same path again
WrapperClose(p) ==
    /\ Running
    /\ pc[p] = "idle"
    /\ wconn[p] # NoConn
    /\ pc' = [pc EXCEPT ![p] = CloseTarget(wbad[p])]
    /\ UNCHANGED <<poolVars, newVars, wrapVars, err, crashed, closeReturned>>
    /\ trk' = IF wbad[p] THEN NoTrk ELSE TrkStep(p)
    /\ UNCHANGED loopVars

\* a caller that closes each wrapper once
CloseOnce(p) == ~wcl[p] /\ WrapperClose(p)

\* tryClose(conn): close the raw connection, release one limiter slot
TryClose(p) ==
    /\ Running
    /\ pc[p] = "try_close"
    /\ closes' = Closed(closes, wconn[p])
    /\ active' = Release(active)
    /\ err' = [err EXCEPT ![p] = "nil"]
    /\ wcl' = [wcl EXCEPT ![p] = TRUE]
    /\ pc' = [pc EXCEPT ![p] = "ret"]
    /\ UNCHANGED <<conns, factory, buf, chClosed, mu, calls, newVars,
                   wconn, wbad, crashed, closeReturned>>
    /\ trk' = NoTrk
    /\ UNCHANGED loopVars

\* a send that always finds room
CanSendAlways(b, cap) == TRUE

\* a send that finds room only below capacity - 1
CanSendOffByOne(b, cap) == Len(b) + 1 < cap

\* select { case c.conns <- conn: ... default: ... }: the send is taken when the
\* buffer has room
CanSend(b, cap) == Len(b) < cap

\* put: c.mu.Lock(); then the closed check and the non-blocking send
PutLock(p) ==
    /\ Running
    /\ pc[p] = "put_lock"
    /\ mu = NoProc
    /\ IF conns = "nil"
       THEN /\ mu' = p
            /\ pc' = [pc EXCEPT ![p] = "put_closed"]
            /\ UNCHANGED <<buf, err, wcl>>
       ELSE IF CanSend(buf, args.maxCap)
       THEN /\ buf' = Append(buf, wconn[p])
            /\ err' = [err EXCEPT ![p] = "nil"]
            /\ wcl' = [wcl EXCEPT ![p] = TRUE]
            /\ pc' = [pc EXCEPT ![p] = "ret"]
            /\ UNCHANGED mu
       ELSE /\ mu' = p
            /\ pc' = [pc EXCEPT ![p] = "put_full"]
            /\ UNCHANGED <<buf, err, wcl>>
    /\ UNCHANGED <<conns, factory, chClosed, active, calls, closes, newVars,
                   wconn, wbad, crashed, closeReturned>>
    /\ trk' = IF conns # "nil" /\ CanSend(buf, args.maxCap) THEN TrkDone(p) ELSE TrkStep(p)
    /\ UNCHANGED loopVars

\* put on a closed pool: conn.Close(); return ErrClosed (the mutex is released on return)
PutClosed(p) ==
    /\ Running
    /\ pc[p] = "put_closed"
    /\ closes' = Closed(closes, wconn[p])
    /\ mu' = NoProc
    /\ err' = [err EXCEPT ![p] = "ErrClosed"]
    /\ wcl' = [wcl EXCEPT ![p] = TRUE]
    /\ pc' = [pc EXCEPT ![p] = "ret"]
    /\ UNCHANGED <<conns, factory, buf, chClosed, active, calls, newVars,
                   wconn, wbad, crashed, closeReturned>>
    /\ trk' = TrkDone(p)
    /\ UNCHANGED loopVars

\* put on a full pool: the connection is closed (its slot released); return ErrFull
PutFull(p) ==
    /\ Running
    /\ pc[p] = "put_full"
    /\ closes' = Closed(closes, wconn[p])
    /\ active' = Release(active)
    /\ mu' = NoProc
    /\ err' = [err EXCEPT ![p] = "ErrFull"]
    /\ wcl' = [wcl EXCEPT ![p] = TRUE]
    /\ pc' = [pc EXCEPT ![p] = "ret"]
    /\ UNCHANGED <<conns, factory, buf, chClosed, calls, newVars,
                   wconn, wbad, crashed, closeReturned>>
    /\ trk' = TrkDone(p)
    /\ UNCHANGED loopVars

\* the caller lets go of a wrapper it has closed
Drop(p) ==
    /\ Running
    /\ pc[p] = "idle"
    /\ wconn[p] # NoConn
    /\ wcl[p]
    /\ wconn' = [wconn EXCEPT ![p] = NoConn]
    /\ wbad' = [wbad EXCEPT ![p] = FALSE]
    /\ wcl' = [wcl EXCEPT ![p] = FALSE]
    /\ UNCHANGED <<poolVars, newVars, pc, err, crashed, closeReturned>>
    /\ trk' = NoTrk
    /\ UNCHANGED loopVars

\* a put that sends a nil connection like any other
PutNilAsPut(p) ==
    /\ Running
    /\ pc[p] = "idle"
    /\ wconn[p] = NoConn
    /\ mu = NoProc
    /\ conns = "ch"
    /\ buf' = Append(buf, NoConn)
    /\ err' = [err EXCEPT ![p] = "nil"]
    /\ pc' = [pc EXCEPT ![p] = "ret"]
    /\ UNCHANGED <<conns, factory, chClosed, mu, active, calls, closes, newVars,
                   wrapVars, crashed, closeReturned>>
    /\ trk' = NoTrk
    /\ UNCHANGED loopVars

\* put(nil): rejected before the mutex is taken
PutNil(p) ==
    /\ Running
    /\ pc[p] = "idle"
    /\ wconn[p] = NoConn
    /\ err' = [err EXCEPT ![p] = "ErrNilConn"]
    /\ pc' = [pc EXCEPT ![p] = "ret"]
    /\ UNCHANGED <<poolVars, newVars, wrapVars, crashed, closeReturned>>
    /\ trk' = NoTrk
    /\ UNCHANGED loopVars

\* the call returns to the worker, which looks at the result
Return(p) ==
    /\ Running
    /\ pc[p] = "ret"
    /\ pc' = [pc EXCEPT ![p] = "idle"]
    /\ err' = [err EXCEPT ![p] = "none"]
    /\ UNCHANGED <<poolVars, newVars, wrapVars, crashed, closeReturned>>
    /\ trk' = TrkStep(p)
    /\ UNCHANGED loopVars

\* --------------------------------------------------------- pool Close
\* Close without `c.conns = nil`
SwappedConnsKept == conns

\* c.conns = nil
SwappedConns == "nil"

\* c.mu.Lock(); conns := c.conns; c.conns = nil; c.factory = nil; c.mu.Unlock()
CloseSwap(p) ==
    /\ Running
    /\ pc[p] = "idle"
    /\ wconn[p] = NoConn
    /\ mu = NoProc
    /\ conns' = SwappedConns
    /\ factory' = FALSE
    /\ IF conns = "nil"
       THEN /\ closeReturned' = TRUE
            /\ UNCHANGED pc
       ELSE /\ pc' = [pc EXCEPT ![p] = "close_chan"]
            /\ UNCHANGED closeReturned
    /\ UNCHANGED <<buf, chClosed, mu, active, calls, closes, newVars, wrapVars,
                   err, crashed>>
    /\ trk' = NoTrk
    /\ UNCHANGED loopVars

\* close(conns)
CloseChan(p) ==
    /\ Running
    /\ pc[p] = "close_chan"
    /\ IF chClosed
       THEN /\ crashed' = "close of closed channel"
            /\ UNCHANGED <<chClosed, pc>>
       ELSE /\ chClosed' = TRUE
            /\ pc' = [pc EXCEPT ![p] = "close_drain"]
            /\ UNCHANGED crashed
    /\ UNCHANGED <<conns, factory, buf, mu, active, calls, closes, newVars,
                   wrapVars, err, closeReturned>>
    /\ trk' = NoTrk
    /\ UNCHANGED loopVars

\* for conn := range conns { conn.Close() }; with the limiter, Close then
\* drains it too
CloseDrain(p) ==
    /\ Running
    /\ pc[p] = "close_drain"
    /\ IF buf # <<>>
       THEN /\ buf' = Tail(buf)
            /\ closes' = Closed(closes, Head(buf))
            /\ UNCHANGED <<pc, closeReturned>>
            /\ UNCHANGED active
       ELSE /\ pc' = [pc EXCEPT ![p] = "idle"]
            /\ closeReturned' = TRUE
            /\ active' = 0
            /\ UNCHANGED <<buf, closes>>
    /\ UNCHANGED <<conns, factory, chClosed, mu, calls, newVars,
                   wrapVars, err, crashed>>
    /\ trk' = NoTrk
    /\ UNCHANGED loopVars

\* ------------------------------------------------------------ Reconnect
\* Reconnect: tryOpen takes a limiter slot (waiting for one when the limiter is
\* saturated)
ReconnectOpen(p) ==
    /\ Running
    /\ pc[p] = "idle"
    /\ wconn[p] = NoConn
    /\ LimiterOn => active < args.maxActive
    /\ active' = IF LimiterOn THEN active + 1 ELSE active
    /\ pc' = [pc EXCEPT ![p] = "rc_factory"]
    /\ UNCHANGED <<conns, factory, buf, chClosed, mu, calls, closes, newVars,
                   wrapVars, err, crashed, closeReturned>>
    /\ trk' = TrkStart(p)
    /\ UNCHANGED loopVars

\* Reconnect: tryOpen calls the factory, as Get does; on an error the slot is
\* given back and the error returned
ReconnectFactory(p, ok, stale) ==
    /\ Running
    /\ pc[p] = "rc_factory"
    /\ calls < MaxCalls
    /\ IF ~factory /\ ~stale
       THEN /\ crashed' = "nil factory call"
            /\ UNCHANGED <<active, calls, closes, wconn, err, pc>>
       ELSE /\ calls' = calls + 1
            /\ UNCHANGED crashed
            /\ IF ok
               THEN /\ wconn' = [wconn EXCEPT ![p] = calls + 1]
                    /\ closes' = [closes EXCEPT ![calls + 1] = 0]
                    /\ pc' = [pc EXCEPT ![p] = "rc_put"]
                    /\ UNCHANGED <<active, err>>
               ELSE /\ err' = [err EXCEPT ![p] = "ErrFactory"]
                    /\ active' = Release(active)
                    /\ pc' = [pc EXCEPT ![p] = "ret"]
                    /\ UNCHANGED <<wconn, closes>>
    /\ UNCHANGED <<conns, factory, buf, chClosed, mu, newVars, wbad, wcl,
                   closeReturned>>
    /\ trk' = IF ok /\ (factory \/ stale) THEN TrkStep(p) ELSE NoTrk
    /\ UNCHANGED loopVars

\* Reconnect: put(conn) under the mutex; when put fails (pool closed or full)
\* the new connection is closed and its slot released
ReconnectPut(p) ==
    /\ Running
    /\ pc[p] = "rc_put"
    /\ mu = NoProc
    /\ IF conns # "nil" /\ CanSend(buf, args.maxCap)
       THEN /\ buf' = Append(buf, wconn[p])
            /\ err' = [err EXCEPT ![p] = "nil"]
            /\ UNCHANGED <<closes, active>>
       ELSE /\ closes' = Closed(closes, wconn[p])
            /\ active' = Release(active)
            /\ err' = [err EXCEPT ![p] = IF conns = "nil" THEN "ErrClosed" ELSE "ErrFull"]
            /\ UNCHANGED buf
    /\ wconn' = [wconn EXCEPT ![p] = NoConn]
    /\ pc' = [pc EXCEPT ![p] = "ret"]
    /\ UNCHANGED <<conns, factory, chClosed, mu, calls, newVars, wbad, wcl,
                   crashed, closeReturned>>
    /\ trk' = NoTrk
    /\ UNCHANGED loopVars

\* ------------------------------------------------ the earlier variants
\* if initialCap <= 0 || maxCap <= 0 || initialCap > maxCap
InvalidCapacityStrict(ic, mc) == ic <= 0 \/ mc <= 0 \/ ic > mc

\* NewChannelPool of channel.go, New of pool.go: initialCap = 0 is rejected
NewStrictPool ==
    \E ic \in 0..MaxCapArg, mc \in 1..MaxCapArg :
        \E failAt \in FailAts(ic) :
            NewPool(ic, mc, 0, failAt, InvalidCapacityStrict(ic, mc))

\* the caller hands the connection it got from Get back with Put(conn)
PutStart(p) ==
    /\ Running
    /\ pc[p] = "idle"
    /\ wconn[p] # NoConn
    /\ ~wcl[p]
    /\ pc' = [pc EXCEPT ![p] = "put_lock"]
    /\ UNCHANGED <<poolVars, newVars, wrapVars, err, crashed, closeReturned>>
    /\ trk' = NoTrk
    /\ UNCHANGED loopVars

\* Get of pool.go: `case conn := <-conns: return conn, nil`, with no check for
\* the nil a closed channel delivers
GetSelectGo(p) ==
    /\ Running
    /\ pc[p] = "get_select"
    /\ IF buf # <<>>
       THEN /\ buf' = Tail(buf)
            /\ wconn' = [wconn EXCEPT ![p] = Head(buf)]
            /\ wbad' = [wbad EXCEPT ![p] = FALSE]
            /\ wcl' = [wcl EXCEPT ![p] = FALSE]
            /\ err' = [err EXCEPT ![p] = "nil"]
            /\ pc' = [pc EXCEPT ![p] = "ret"]
       ELSE IF chClosed
       THEN /\ err' = [err EXCEPT ![p] = "nil"]
            /\ pc' = [pc EXCEPT ![p] = "ret"]
            /\ UNCHANGED <<buf, wrapVars>>
       ELSE /\ pc' = [pc EXCEPT ![p] = "get_factory"]
            /\ UNCHANGED <<buf, wrapVars, err>>
    /\ UNCHANGED <<conns, factory, chClosed, mu, active, calls, closes, newVars,
                   crashed, closeReturned>>
    /\ trk' = NoTrk
    /\ UNCHANGED loopVars

\* Put of pool.go: conns := p.getConns(); if conns == nil { conn.Close(); return }
PutGoStart(p) ==
    /\ Running
    /\ pc[p] = "idle"
    /\ wconn[p] # NoConn
    /\ ~wcl[p]
    /\ mu = NoProc
    /\ IF conns = "nil"
       THEN /\ closes' = Closed(closes, wconn[p])
            /\ wcl' = [wcl EXCEPT ![p] = TRUE]
            /\ err' = [err EXCEPT ![p] = "nil"]
            /\ pc' = [pc EXCEPT ![p] = "ret"]
       ELSE /\ pc' = [pc EXCEPT ![p] = "putgo_send"]
            /\ UNCHANGED <<closes, wcl, err>>
    /\ UNCHANGED <<conns, factory, buf, chClosed, mu, active, calls, newVars,
                   wconn, wbad, crashed, closeReturned>>
    /\ trk' = NoTrk
    /\ UNCHANGED loopVars

\* Put of pool.go: select { case conns <- conn: default: conn.Close() } on the
\* channel read before, with the mutex released: a send on a closed channel panics
PutGoSend(p) ==
    /\ Running
    /\ pc[p] = "putgo_send"
    /\ IF chClosed
       THEN /\ crashed' = "send on closed channel"
            /\ UNCHANGED <<buf, closes, wcl, err, pc>>
       ELSE /\ IF CanSend(buf, args.maxCap)
               THEN /\ buf' = Append(buf, wconn[p])
                    /\ UNCHANGED closes
               ELSE /\ closes' = Closed(closes, wconn[p])
                    /\ UNCHANGED buf
            /\ wcl' = [wcl EXCEPT ![p] = TRUE]
            /\ err' = [err EXCEPT ![p] = "nil"]
            /\ pc' = [pc EXCEPT ![p] = "ret"]
            /\ UNCHANGED crashed
    /\ UNCHANGED <<conns, factory, chClosed, mu, active, calls, newVars,
                   wconn, wbad, closeReturned>>
    /\ trk' = NoTrk
    /\ UNCHANGED loopVars

\* ------------------------------------------------- the oldest variant
\* New: when a factory call of the fill loop fails, New returns the error and
\* leaves the connections made before it open
NewOldPool(ic, mc, failAt) ==
    /\ phase = "new"
    /\ args' = [initialCap |-> ic, maxCap |-> mc, maxActive |-> 0]
    /\ UNCHANGED <<chClosed, mu, active, pc, wconn, wbad, wcl, err, crashed,
                   closeReturned, trk>>
    /\ IF InvalidCapacityStrict(ic, mc)
       THEN /\ phase' = "failed"
            /\ newErr' = "InvalidCapacity"
            /\ UNCHANGED <<conns, factory, buf, calls, closes>>
       ELSE IF failAt = 0
       THEN /\ phase' = "built"
            /\ newErr' = "none"
            /\ conns' = "ch"
            /\ factory' = TRUE
            /\ buf' = Iota(ic)
            /\ calls' = ic
            /\ closes' = [c \in ConnIds |-> IF c <= ic THEN 0 ELSE NotMade]
       ELSE /\ phase' = "failed"
            /\ newErr' = "FactoryFillFailed"
            /\ calls' = failAt
            /\ closes' = [c \in ConnIds |-> IF c < failAt THEN 0 ELSE NotMade]
            /\ UNCHANGED <<conns, factory, buf>>
    /\ UNCHANGED loopVars

NewOld ==
    \E ic \in 0..MaxCapArg, mc \in 1..MaxCapArg :
        \E failAt \in FailAts(ic) : NewOldPool(ic, mc, failAt)

\* New of the oldest variant, on capacities up to MaxFreshCap
NewOldFresh ==
    \E ic \in 0..MaxFreshCap, mc \in 1..MaxFreshCap :
        \E failAt \in FailAts(ic) : NewOldPool(ic, mc, failAt)

\* Get: select { case conn, ok := <-p.conns: ... default: return p.factory() }
GetOld(p) ==
    /\ Running
    /\ pc[p] = "idle"
    /\ wconn[p] = NoConn
    /\ IF buf # <<>>
       THEN /\ buf' = Tail(buf)
            /\ wconn' = [wconn EXCEPT ![p] = Head(buf)]
            /\ wbad' = [wbad EXCEPT ![p] = FALSE]
            /\ wcl' = [wcl EXCEPT ![p] = FALSE]
            /\ err' = [err EXCEPT ![p] = "nil"]
            /\ pc' = [pc EXCEPT ![p] = "ret"]
       ELSE IF chClosed
       THEN /\ err' = [err EXCEPT ![p] = "ErrChannelClosed"]
            /\ pc' = [pc EXCEPT ![p] = "ret"]
            /\ UNCHANGED <<buf, wrapVars>>
       ELSE /\ pc' = [pc EXCEPT ![p] = "get_factory"]
            /\ UNCHANGED <<buf, wrapVars, err>>
    /\ UNCHANGED <<conns, factory, chClosed, mu, active, calls, closes, newVars,
                   crashed, closeReturned>>
    /\ trk' = NoTrk
    /\ UNCHANGED loopVars

\* Put: select { case p.conns <- conn: default: log.Println(...) }: on a full
\* pool the connection is dropped, not closed; a send on a closed channel panics
PutOld(p) ==
    /\ Running
    /\ pc[p] = "idle"
    /\ wconn[p] # NoConn
    /\ ~wcl[p]
    /\ IF chClosed
       THEN /\ crashed' = "send on closed channel"
            /\ UNCHANGED <<buf, wcl, err, pc>>
       ELSE /\ buf' = IF CanSend(buf, args.maxCap) THEN Append(buf, wconn[p]) ELSE buf
            /\ wcl' = [wcl EXCEPT ![p] = TRUE]
            /\ err' = [err EXCEPT ![p] = "nil"]
            /\ pc' = [pc EXCEPT ![p] = "ret"]
            /\ UNCHANGED crashed
    /\ UNCHANGED <<conns, factory, chClosed, mu, active, calls, closes, newVars,
                   wconn, wbad, closeReturned>>
    /\ trk' = NoTrk
    /\ UNCHANGED loopVars

\* Close: close(p.conns); closing a closed channel panics
CloseOld(p) ==
    /\ Running
    /\ pc[p] = "idle"
    /\ wconn[p] = NoConn
    /\ IF chClosed
       THEN /\ crashed' = "close of closed channel"
            /\ UNCHANGED <<chClosed, closeReturned>>
       ELSE /\ chClosed' = TRUE
            /\ closeReturned' = TRUE
            /\ UNCHANGED crashed
    /\ UNCHANGED <<conns, factory, buf, mu, active, calls, closes, newVars,
                   wrapVars, pc, err>>
    /\ trk' = NoTrk
    /\ UNCHANGED loopVars

\* ------------------------------------------- the variant with Destroy
\* (part_004: a Pool with an isDestroyed flag; the mutex protects the flag only)

\* p.isDestroyed: set in the critical section of Destroy that sets p.conns to
\* nil, and read only with the mutex held
isDestroyed == conns = "nil"

\* New: the connections are kept in bufferedConn, a slice of initialCap
\* entries, until all are made.  When the failAt-th factory call fails,
\* closeConns ranges over the whole slice: it closes the failAt-1 connections
\* made, then calls Close() on the nil entry that follows, which panics.
NewBufferedPool(ic, mc, failAt) ==
    /\ phase = "new"
    /\ args' = [initialCap |-> ic, maxCap |-> mc, maxActive |-> 0]
    /\ UNCHANGED <<chClosed, mu, active, pc, wconn, wbad, wcl, err,
                   closeReturned, trk>>
    /\ IF InvalidCapacityStrict(ic, mc)
       THEN /\ phase' = "failed"
            /\ newErr' = "InvalidCapacity"
            /\ UNCHANGED <<conns, factory, buf, calls, closes, crashed>>
       ELSE IF failAt = 0
       THEN /\ phase' = "built"
            /\ newErr' = "none"
            /\ conns' = "ch"
            /\ factory' = TRUE
            /\ buf' = Iota(ic)
            /\ calls' = ic
            /\ closes' = [c \in ConnIds |-> IF c <= ic THEN 0 ELSE NotMade]
            /\ UNCHANGED crashed
       ELSE /\ phase' = "failed"
            /\ newErr' = "none"
            /\ crashed' = "Close of nil connection"
            /\ calls' = failAt
            /\ closes' = [c \in ConnIds |-> IF c < failAt THEN 1 ELSE NotMade]
            /\ UNCHANGED <<conns, factory, buf>>
    /\ UNCHANGED loopVars

NewBuffered ==
    \E ic \in 0..MaxCapArg, mc \in 1..MaxCapArg :
        \E failAt \in FailAts(ic) : NewBufferedPool(ic, mc, failAt)

\* what an unlocked read of p.conns sees: the field, or, racing with the
\* write of Destroy, the channel it held before
SeenConns(stale) == IF conns = "nil" /\ stale THEN "ch" ELSE conns

\* Get: p.mu.Lock(); if p.isDestroyed { p.mu.Unlock(); return error }; p.mu.Unlock()
GetCheckD(p) ==
    /\ Running
    /\ pc[p] = "idle"
    /\ wconn[p] = NoConn
    /\ mu = NoProc
    /\ IF isDestroyed
       THEN /\ err' = [err EXCEPT ![p] = "ErrDestroyed"]
            /\ pc' = [pc EXCEPT ![p] = "ret"]
       ELSE /\ pc' = [pc EXCEPT ![p] = "get_select"]
            /\ UNCHANGED err
    /\ UNCHANGED <<poolVars, newVars, wrapVars, crashed, closeReturned, loopVars>>
    /\ trk' = NoTrk

\* Get: select { case conn := <-p.conns: return conn, nil; default: return
\* p.factory() } with p.conns read without the mutex: a nil channel is never
\* ready, a closed one delivers nil
GetSelectD(p, stale) ==
    /\ Running
    /\ pc[p] = "get_select"
    /\ IF SeenConns(stale) = "ch" /\ buf # <<>>
       THEN /\ buf' = Tail(buf)
            /\ wconn' = [wconn EXCEPT ![p] = Head(buf)]
            /\ wbad' = [wbad EXCEPT ![p] = FALSE]
            /\ wcl' = [wcl EXCEPT ![p] = FALSE]
            /\ err' = [err EXCEPT ![p] = "nil"]
            /\ pc' = [pc EXCEPT ![p] = "ret"]
       ELSE IF SeenConns(stale) = "ch" /\ chClosed
       THEN /\ err' = [err EXCEPT ![p] = "nil"]
            /\ pc' = [pc EXCEPT ![p] = "ret"]
            /\ UNCHANGED <<buf, wrapVars>>
       ELSE /\ pc' = [pc EXCEPT ![p] = "get_factory"]
            /\ UNCHANGED <<buf, wrapVars, err>>
    /\ UNCHANGED <<conns, factory, chClosed, mu, active, calls, closes, newVars,
                   crashed, closeReturned, loopVars>>
    /\ trk' = NoTrk

\* Put: p.mu.Lock(); if p.isDestroyed { p.mu.Unlock(); return error }; p.mu.Unlock():
\* the connection is not closed
PutCheckD(p) ==
    /\ Running
    /\ pc[p] = "idle"
    /\ wconn[p] # NoConn
    /\ ~wcl[p]
    /\ mu = NoProc
    /\ IF isDestroyed
       THEN /\ err' = [err EXCEPT ![p] = "ErrDestroyed"]
            /\ wcl' = [wcl EXCEPT ![p] = TRUE]
            /\ pc' = [pc EXCEPT ![p] = "ret"]
       ELSE /\ pc' = [pc EXCEPT ![p] = "putd_send"]
            /\ UNCHANGED <<err, wcl>>
    /\ UNCHANGED <<poolVars, newVars, wconn, wbad, crashed, closeReturned, loopVars>>
    /\ trk' = NoTrk

\* Put: select { case p.conns <- conn: return nil; default: return error }
\* with p.conns read without the mutex: a send on a nil channel is never
\* ready, a send on a closed channel panics; the default branch leaves the
\* connection open
PutSendD(p, stale) ==
    /\ Running
    /\ pc[p] = "putd_send"
    /\ IF SeenConns(stale) = "ch" /\ chClosed
       THEN /\ crashed' = "send on closed channel"
            /\ UNCHANGED <<buf, wcl, err, pc>>
       ELSE /\ IF SeenConns(stale) = "ch" /\ CanSend(buf, args.maxCap)
               THEN /\ buf' = Append(buf, wconn[p])
                    /\ err' = [err EXCEPT ![p] = "nil"]
               ELSE /\ err' = [err EXCEPT ![p] = "ErrFull"]
                    /\ UNCHANGED buf
            /\ wcl' = [wcl EXCEPT ![p] = TRUE]
            /\ pc' = [pc EXCEPT ![p] = "ret"]
            /\ UNCHANGED crashed
    /\ UNCHANGED <<conns, factory, chClosed, mu, active, calls, closes, newVars,
                   wconn, wbad, closeReturned, loopVars>>
    /\ trk' = NoTrk

\* Destroy: p.mu.Lock(); defer p.mu.Unlock(); if p.isDestroyed { return }
DestroyLock(p) ==
    /\ Running
    /\ pc[p] = "idle"
    /\ wconn[p] = NoConn
    /\ mu = NoProc
    /\ IF isDestroyed
       THEN /\ closeReturned' = TRUE
            /\ UNCHANGED <<mu, pc, idx>>
       ELSE /\ mu' = p
            /\ pc' = [pc EXCEPT ![p] = "destroy_drain"]
            /\ idx' = [idx EXCEPT ![p] = 0]
            /\ UNCHANGED closeReturned
    /\ UNCHANGED <<conns, factory, buf, chClosed, active, calls, closes, newVars,
                   wrapVars, err, crashed, count, need_reconnect, reconn_chan,
                   signalled, reconnected>>
    /\ trk' = NoTrk

\* Destroy: for i := 0; i < p.MaximumCapacity(); i++ { select { case conn :=
\* <-p.conns: conn.Close(); default: continue } }
DestroyDrain(p) ==
    /\ Running
    /\ pc[p] = "destroy_drain"
    /\ idx[p] < args.maxCap
    /\ IF buf # <<>>
       THEN /\ buf' = Tail(buf)
            /\ closes' = Closed(closes, Head(buf))
       ELSE UNCHANGED <<buf, closes>>
    /\ idx' = [idx EXCEPT ![p] = idx[p] + 1]
    /\ UNCHANGED <<conns, factory, chClosed, mu, active, calls, newVars,
                   wrapVars, pc, err, crashed, closeReturned, count,
                   need_reconnect, reconn_chan, signalled, reconnected>>
    /\ trk' = NoTrk

\* Destroy: close(p.conns), after the loop
DestroyCloseChan(p) ==
    /\ Running
    /\ pc[p] = "destroy_drain"
    /\ idx[p] >= args.maxCap
    /\ chClosed' = TRUE
    /\ pc' = [pc EXCEPT ![p] = "destroy_reset"]
    /\ UNCHANGED <<conns, factory, buf, mu, active, calls, closes, newVars,
                   wrapVars, err, crashed, closeReturned, loopVars>>
    /\ trk' = NoTrk

\* Destroy: p.conns = nil; p.factory = nil; p.isDestroyed = true; the deferred Unlock
DestroyReset(p) ==
    /\ Running
    /\ pc[p] = "destroy_reset"
    /\ conns' = "nil"
    /\ factory' = FALSE
    /\ mu' = NoProc
    /\ closeReturned' = TRUE
    /\ pc' = [pc EXCEPT ![p] = "idle"]
    /\ idx' = [idx EXCEPT ![p] = 0]
    /\ UNCHANGED <<buf, chClosed, active, calls, closes, newVars, wrapVars, err,
                   crashed, count, need_reconnect, reconn_chan, signalled,
                   reconnected>>
    /\ trk' = NoTrk

\* ------------------------------------------- consumers and supervisor
\* (OnProcessTcp and CheckReconnect of the main program)

\* cap(gb_data.ReconnectChan): make(chan int, MAX_CONNECT), MAX_CONNECT being
\* the pool's maxCap
ChanCap == args.maxCap

\* the consumers inside OnProcessTcp between the failed Write and the send
Signalling == {p \in Procs : pc[p] = "tcp_signal"}

\* OnProcessTcp after Get: icount, err1 := pc.Write(...).  PoolConn.Write marks
\* the wrapper on a net.Error that is no timeout; when the Write failed with
\* icount == 0 the consumer calls MarkUnusable and goes on to signal the
\* supervisor; otherwise it calls pc.Close()
TcpWrite(p, res, zero) ==
    /\ Running
    /\ pc[p] = "idle"
    /\ wconn[p] # NoConn
    /\ ~wcl[p]
    /\ (res # "ok" /\ zero) => signalled + Cardinality(Signalling) < MaxSignals
    /\ wbad' = [wbad EXCEPT ![p] = wbad[p] \/ MarksUnusable(res) \/ (res # "ok" /\ zero)]
    /\ pc' = [pc EXCEPT ![p] = IF res # "ok" /\ zero
                               THEN "tcp_signal"
                               ELSE CloseTarget(wbad'[p])]
    /\ UNCHANGED <<poolVars, newVars, wconn, wcl, err, crashed, closeReturned,
                   loopVars>>
    /\ trk' = NoTrk

\* OnProcessTcp: gb_data.ReconnectChan <- 1 (the send waits while the channel
\* is full), then pc.Close() on the wrapper it marked
TcpSignal(p) ==
    /\ Running
    /\ pc[p] = "tcp_signal"
    /\ Len(reconn_chan) < ChanCap
    /\ reconn_chan' = Append(reconn_chan, 1)
    /\ signalled' = signalled + 1
    /\ pc' = [pc EXCEPT ![p] = CloseTarget(wbad[p])]
    /\ UNCHANGED <<poolVars, newVars, wrapVars, err, crashed, closeReturned,
                   idx, count, need_reconnect, reconnected>>
    /\ trk' = NoTrk

\* CheckReconnect, select: case count := <-reconn_chan
SupReceive ==
    /\ Running
    /\ pc[Sup] = "idle"
    /\ reconn_chan # <<>>
    /\ count' = Head(reconn_chan)
    /\ reconn_chan' = Tail(reconn_chan)
    /\ idx' = [idx EXCEPT ![Sup] = 0]
    /\ pc' = [pc EXCEPT ![Sup] = "sup_batch"]
    /\ UNCHANGED <<poolVars, newVars, wrapVars, err, crashed, closeReturned,
                   need_reconnect, signalled, reconnected, trk>>

\* a failed replacement that is not counted
FailedDropped(n) == n

\* need_reconnect += 1
Failed(n) == n + 1

\* the connection the next successful Reconnect puts into the pool
RecId == MaxCalls + reconnected + 1

\* CheckReconnect, one turn of `for i := 0; i < count; i += 1`: Reconnect() is
\* tryOpen (the factory succeeds or fails) and then put, which inserts the new
\* connection when the pool is open and the buffer has room and else closes
\* it; every error is counted in need_reconnect
SupReconnect(ok) ==
    /\ Running
    /\ pc[Sup] = "sup_batch"
    /\ idx[Sup] < count
    /\ ok => mu = NoProc
    /\ idx' = [idx EXCEPT ![Sup] = idx[Sup] + 1]
    /\ IF ok /\ conns # "nil" /\ CanSend(buf, args.maxCap)
       THEN /\ buf' = Append(buf, RecId)
            /\ closes' = [closes EXCEPT ![RecId] = 0]
            /\ reconnected' = reconnected + 1
            /\ err' = [err EXCEPT ![Sup] = "nil"]
            /\ UNCHANGED need_reconnect
       ELSE /\ need_reconnect' = Failed(need_reconnect)
            /\ err' = [err EXCEPT ![Sup] = IF ~ok THEN "ErrFactory"
                                           ELSE IF conns = "nil" THEN "ErrClosed"
                                           ELSE "ErrFull"]
            /\ UNCHANGED <<buf, closes, reconnected>>
    /\ UNCHANGED <<conns, factory, chClosed, mu, active, calls, newVars,
                   wrapVars, pc, crashed, closeReturned, count, reconn_chan,
                   signalled, trk>>

\* CheckReconnect: the batch loop ends, back to the select
SupBatchDone ==
    /\ Running
    /\ pc[Sup] = "sup_batch"
    /\ idx[Sup] >= count
    /\ pc' = [pc EXCEPT ![Sup] = "idle"]
    /\ idx' = [idx EXCEPT ![Sup] = 0]
    /\ count' = 0
    /\ err' = [err EXCEPT ![Sup] = "none"]
    /\ UNCHANGED <<poolVars, newVars, wrapVars, crashed, closeReturned,
                   need_reconnect, reconn_chan, signalled, reconnected, trk>>

\* CheckReconnect, select: case <-time.After(5 * time.Second).  The timer is
\* made when the select is entered, so it fires only after the channel stayed
\* empty for five seconds; then `if need_reconnect > 0`
SupTimer ==
    /\ Running
    /\ pc[Sup] = "idle"
    /\ reconn_chan = <<>>
    /\ pc' = [pc EXCEPT ![Sup] = IF need_reconnect > 0 THEN "sup_send" ELSE "idle"]
    /\ UNCHANGED <<poolVars, newVars, wrapVars, err, crashed, closeReturned,
                   loopVars, trk>>

\* CheckReconnect: reconn_chan <- need_reconnect; need_reconnect = 0.  The send
\* waits while the channel is full
SupSend ==
    /\ Running
    /\ pc[Sup] = "sup_send"
    /\ Len(reconn_chan) < ChanCap
    /\ reconn_chan' = Append(reconn_chan, need_reconnect)
    /\ need_reconnect' = 0
    /\ pc' = [pc EXCEPT ![Sup] = "idle"]
    /\ UNCHANGED <<poolVars, newVars, wrapVars, err, crashed, closeReturned,
                   idx, count, signalled, reconnected, trk>>

\* ------------------------------------- pool.go, the Pool with get and put
\* the goroutine that runs the constructor
Ctor == "new"

\* New: the capacities are checked as in channel.go; when a factory call of
\* the fill loop fails, New calls p.Close(), whose closePool locks the mutex
\* and locks it again on return: New never returns, the connections made
\* before stay open in the buffer
NewPoolMu(ic, mc, failAt) ==
    /\ phase = "new"
    /\ args' = [initialCap |-> ic, maxCap |-> mc, maxActive |-> 0]
    /\ IF InvalidCapacityStrict(ic, mc)
       THEN /\ phase' = "failed"
            /\ newErr' = "InvalidCapacity"
            /\ UNCHANGED <<conns, factory, buf, calls, closes, mu>>
       ELSE IF failAt = 0
       THEN /\ phase' = "built"
            /\ newErr' = "none"
            /\ conns' = "ch"
            /\ factory' = TRUE
            /\ buf' = Iota(ic)
            /\ calls' = ic
            /\ closes' = [c \in ConnIds |-> IF c <= ic THEN 0 ELSE NotMade]
            /\ UNCHANGED mu
       ELSE /\ phase' = "hung"
            /\ newErr' = "none"
            /\ conns' = "nil"
            /\ factory' = FALSE
            /\ buf' = Iota(failAt - 1)
            /\ calls' = failAt
            /\ closes' = [c \in ConnIds |-> IF c < failAt THEN 0 ELSE NotMade]
            /\ mu' = Ctor
    /\ UNCHANGED <<chClosed, active, wrapVars, pc, err, crashed, closeReturned,
                   trk, loopVars>>

\* New(initialCap, maxCap, factory) on capacities up to MaxFreshCap
NewMu ==
    \E ic \in 0..MaxFreshCap, mc \in 1..MaxFreshCap :
        \E failAt \in FailAts(ic) :
            NewPoolMu(ic, mc, failAt)

\* Get: p.get() under the mutex (the closed check and the non-blocking
\* receive); when it yields no connection, Get goes on to p.factory()
GetMu(p) ==
    /\ Running
    /\ pc[p] = "idle"
    /\ wconn[p] = NoConn
    /\ mu = NoProc
    /\ IF conns = "nil"
       THEN /\ err' = [err EXCEPT ![p] = "ErrClosed"]
            /\ pc' = [pc EXCEPT ![p] = "ret"]
            /\ UNCHANGED <<buf, wrapVars>>
       ELSE IF buf # <<>>
       THEN /\ buf' = Tail(buf)
            /\ wconn' = [wconn EXCEPT ![p] = Head(buf)]
            /\ wbad' = [wbad EXCEPT ![p] = FALSE]
            /\ wcl' = [wcl EXCEPT ![p] = FALSE]
            /\ err' = [err EXCEPT ![p] = "nil"]
            /\ pc' = [pc EXCEPT ![p] = "ret"]
       ELSE /\ pc' = [pc EXCEPT ![p] = "get_factory"]
            /\ UNCHANGED <<buf, wrapVars, err>>
    /\ UNCHANGED <<conns, factory, chClosed, mu, active, calls, closes, newVars,
                   crashed, closeReturned>>
    /\ trk' = NoTrk
    /\ UNCHANGED loopVars

\* Put: p.put(conn) under the mutex; false on a closed or full pool
PutMu(p) ==
    /\ Running
    /\ pc[p] = "idle"
    /\ wconn[p] # NoConn
    /\ ~wcl[p]
    /\ mu = NoProc
    /\ IF conns # "nil" /\ CanSend(buf, args.maxCap)
       THEN /\ buf' = Append(buf, wconn[p])
            /\ wcl' = [wcl EXCEPT ![p] = TRUE]
            /\ err' = [err EXCEPT ![p] = "nil"]
            /\ pc' = [pc EXCEPT ![p] = "ret"]
       ELSE /\ pc' = [pc EXCEPT ![p] = "putmu_close"]
            /\ UNCHANGED <<buf, wcl, err>>
    /\ UNCHANGED <<conns, factory, chClosed, mu, active, calls, closes, newVars,
                   wconn, wbad, crashed, closeReturned>>
    /\ trk' = NoTrk
    /\ UNCHANGED loopVars

\* Put: if !p.put(conn) { conn.Close() }, with the mutex released
PutMuClose(p) ==
    /\ Running
    /\ pc[p] = "putmu_close"
    /\ closes' = Closed(closes, wconn[p])
    /\ wcl' = [wcl EXCEPT ![p] = TRUE]
    /\ err' = [err EXCEPT ![p] = "nil"]
    /\ pc' = [pc EXCEPT ![p] = "ret"]
    /\ UNCHANGED <<conns, factory, buf, chClosed, mu, active, calls, newVars,
                   wconn, wbad, crashed, closeReturned>>
    /\ trk' = NoTrk
    /\ UNCHANGED loopVars

\* closePool: p.mu.Lock(); conns := p.conns; p.conns = nil; p.factory = nil.
\* The goroutine keeps the mutex: no Unlock follows
closePool(p) ==
    /\ Running
    /\ pc[p] = "idle"
    /\ wconn[p] = NoConn
    /\ mu = NoProc
    /\ mu' = p
    /\ conns' = "nil"
    /\ factory' = FALSE
    /\ pc' = [pc EXCEPT ![p] = IF conns = "nil" THEN "cp_defer_nil" ELSE "cp_defer"]
    /\ UNCHANGED <<buf, chClosed, active, calls, closes, newVars, wrapVars,
                   err, crashed, closeReturned>>
    /\ trk' = NoTrk
    /\ UNCHANGED loopVars

\* where a goroutine waits for the mutex in closePool's deferred Lock
Parked(at) == IF at = "cp_defer" THEN "cp_parked" ELSE "cp_parked_nil"

\* the rest of Close.  closePool returns through `defer p.mu.Lock()`: a second
\* Lock, which waits until the mutex is free.  After it, Close returns when
\* closePool gave nil, and otherwise ranges over the channel, closing every
\* connection; the channel is never closed, so the range does not end
CloseMu(p) ==
    /\ Running
    /\ pc[p] \in {"cp_defer", "cp_defer_nil", "cp_parked", "cp_parked_nil", "close_range"}
    /\ IF pc[p] = "close_range"
       THEN /\ buf # <<>>
            /\ buf' = Tail(buf)
            /\ closes' = Closed(closes, Head(buf))
            /\ UNCHANGED <<mu, pc, closeReturned>>
       ELSE IF mu = NoProc
       THEN /\ mu' = p
            /\ IF pc[p] \in {"cp_defer_nil", "cp_parked_nil"}
               THEN /\ pc' = [pc EXCEPT ![p] = "idle"]
                    /\ closeReturned' = TRUE
               ELSE /\ pc' = [pc EXCEPT ![p] = "close_range"]
                    /\ UNCHANGED closeReturned
            /\ UNCHANGED <<buf, closes>>
       ELSE /\ pc[p] \in {"cp_defer", "cp_defer_nil"}
            /\ pc' = [pc EXCEPT ![p] = Parked(pc[p])]
            /\ UNCHANGED <<mu, buf, closes, closeReturned>>
    /\ UNCHANGED <<conns, factory, chClosed, active, calls, newVars, wrapVars,
                   err, crashed>>
    /\ trk' = NoTrk
    /\ UNCHANGED loopVars

\* ---------------------------------------------------------------- spec
\* the steps of worker p on the pool of main.go with the wrapper of conn.go
Worker(p) ==
    \/ GetStart(p)
    \/ GetSelect(p)
    \/ \E ok \in BOOLEAN, stale \in BOOLEAN : GetFactory(p, ok, stale)
    \/ MarkUnusable(p)
    \/ WrapperClose(p)
    \/ TryClose(p)
    \/ PutLock(p)
    \/ PutClosed(p)
    \/ PutFull(p)
    \/ Drop(p)
    \/ PutNil(p)
    \/ Return(p)
    \/ CloseSwap(p)
    \/ CloseChan(p)
    \/ CloseDrain(p)

\* the pool without a limiter
Next ==
    \/ NewChannelPool
    \/ \E p \in Procs : Worker(p)

Spec == Init /\ [][Next]_vars

\* the pool with the active-connection limiter
NextLim ==
    \/ NewLimitedPool
    \/ \E p \in Procs : Worker(p)
    \/ \E p \in Procs : GetAcquire(p)

LimSpec == Init /\ [][NextLim]_vars

\* a goroutine inside a call takes its next step when it can; nothing makes a
\* caller start a call
Internal(p) ==
    \/ GetSelect(p)
    \/ GetAcquire(p)
    \/ \E ok \in BOOLEAN, stale \in BOOLEAN : GetFactory(p, ok, stale)
    \/ TryClose(p)
    \/ PutLock(p)
    \/ PutClosed(p)
    \/ PutFull(p)
    \/ Return(p)
    \/ CloseChan(p)
    \/ CloseDrain(p)

LiveSpec == Init /\ [][NextLim]_vars /\ \A p \in Procs : WF_vars(Internal(p))

\* the pool, with or without the limiter, and the Reconnect of the supervisor
NextRecon ==
    \/ NewChannelPool
    \/ NewLimitedPool
    \/ \E p \in Procs : Worker(p)
    \/ \E p \in Procs : GetAcquire(p)
    \/ \E p \in Procs : ReconnectOpen(p)
    \/ \E p \in Procs, ok \in BOOLEAN, stale \in BOOLEAN : ReconnectFactory(p, ok, stale)
    \/ \E p \in Procs : ReconnectPut(p)

ReconSpec == Init /\ [][NextRecon]_vars

\* the pool without a limiter, the callers reading and writing on their wrappers
NextIO ==
    \/ NewChannelPool
    \/ \E p \in Procs : Worker(p)
    \/ \E p \in Procs, res \in IOResults : ReadWrite(p, res)

IOSpec == Init /\ [][NextIO]_vars

\* a fresh pool without a limiter: every caller calls Get once and closes its
\* wrapper once, unmarked; the pool stays open and, after the constructor,
\* the factory succeeds
NextSeq ==
    \/ NewFreshPool
    \/ \E p \in Procs : GetStart(p)
    \/ \E p \in Procs : GetSelect(p)
    \/ \E p \in Procs, stale \in BOOLEAN : GetFactory(p, TRUE, stale)
    \/ \E p \in Procs : CloseOnce(p)
    \/ \E p \in Procs : PutLock(p)
    \/ \E p \in Procs : PutFull(p)
    \/ \E p \in Procs : Return(p)

SeqSpec == Init /\ [][NextSeq]_vars

\* the constructor alone
NextCtor == NewAnyPool

CtorSpec == Init /\ [][NextCtor]_vars

\* channel.go: the constructor that rejects initialCap = 0, with Get, Put and
\* Close as in main.go and no wrapper
NextChannel ==
    \/ NewStrictPool
    \/ \E p \in Procs : GetStart(p)
    \/ \E p \in Procs : GetSelect(p)
    \/ \E p \in Procs, ok \in BOOLEAN, stale \in BOOLEAN : GetFactory(p, ok, stale)
    \/ \E p \in Procs : PutStart(p)
    \/ \E p \in Procs : PutLock(p)
    \/ \E p \in Procs : PutClosed(p)
    \/ \E p \in Procs : PutFull(p)
    \/ \E p \in Procs : Drop(p)
    \/ \E p \in Procs : Return(p)
    \/ \E p \in Procs : CloseSwap(p)
    \/ \E p \in Procs : CloseChan(p)
    \/ \E p \in Procs : CloseDrain(p)

ChannelSpec == Init /\ [][NextChannel]_vars

\* pool.go (its first Pool): Put sends without holding the mutex
NextPoolGo ==
    \/ NewStrictPool
    \/ \E p \in Procs : GetStart(p)
    \/ \E p \in Procs : GetSelectGo(p)
    \/ \E p \in Procs, ok \in BOOLEAN, stale \in BOOLEAN : GetFactory(p, ok, stale)
    \/ \E p \in Procs : PutGoStart(p)
    \/ \E p \in Procs : PutGoSend(p)
    \/ \E p \in Procs : Drop(p)
    \/ \E p \in Procs : Return(p)
    \/ \E p \in Procs : CloseSwap(p)
    \/ \E p \in Procs : CloseChan(p)
    \/ \E p \in Procs : CloseDrain(p)

PoolGoSpec == Init /\ [][NextPoolGo]_vars

\* the oldest Pool (part_003): no mutex, Close is close(p.conns)
NextOld ==
    \/ NewOld
    \/ \E p \in Procs : GetOld(p)
    \/ \E p \in Procs, ok \in BOOLEAN, stale \in BOOLEAN : GetFactory(p, ok, stale)
    \/ \E p \in Procs : PutOld(p)
    \/ \E p \in Procs : CloseOld(p)
    \/ \E p \in Procs : Drop(p)
    \/ \E p \in Procs : Return(p)

OldSpec == Init /\ [][NextOld]_vars

\* the oldest Pool (part_003) on pools of up to MaxFreshCap connections
NextOldFill ==
    \/ NewOldFresh
    \/ \E p \in Procs : GetOld(p)
    \/ \E p \in Procs, ok \in BOOLEAN, stale \in BOOLEAN : GetFactory(p, ok, stale)
    \/ \E p \in Procs : PutOld(p)
    \/ \E p \in Procs : CloseOld(p)
    \/ \E p \in Procs : Drop(p)
    \/ \E p \in Procs : Return(p)

OldFillSpec == Init /\ [][NextOldFill]_vars

\* the Pool with Destroy (part_004)
NextDestroy ==
    \/ NewBuffered
    \/ \E p \in Procs : GetCheckD(p)
    \/ \E p \in Procs, stale \in BOOLEAN : GetSelectD(p, stale)
    \/ \E p \in Procs, ok \in BOOLEAN, stale \in BOOLEAN : GetFactory(p, ok, stale)
    \/ \E p \in Procs : PutCheckD(p)
    \/ \E p \in Procs, stale \in BOOLEAN : PutSendD(p, stale)
    \/ \E p \in Procs : DestroyLock(p)
    \/ \E p \in Procs : DestroyDrain(p)
    \/ \E p \in Procs : DestroyCloseChan(p)
    \/ \E p \in Procs : DestroyReset(p)
    \/ \E p \in Procs : Drop(p)
    \/ \E p \in Procs : Return(p)

DestroySpec == Init /\ [][NextDestroy]_vars

\* one consumer: OnProcessTcp, called again and again by ProcessTcp
Consumer(p) ==
    \/ GetStart(p)
    \/ GetSelect(p)
    \/ \E ok \in BOOLEAN, stale \in BOOLEAN : GetFactory(p, ok, stale)
    \/ \E res \in IOResults, zero \in BOOLEAN : TcpWrite(p, res, zero)
    \/ TcpSignal(p)
    \/ TryClose(p)
    \/ PutLock(p)
    \/ PutFull(p)
    \/ Drop(p)
    \/ Return(p)

\* the supervisor: CheckReconnect
Supervisor ==
    \/ SupReceive
    \/ \E ok \in BOOLEAN : SupReconnect(ok)
    \/ SupBatchDone
    \/ SupTimer
    \/ SupSend

\* the main program: a pool, the consumers and the supervisor
NextSup ==
    \/ NewChannelPool
    \/ \E p \in Procs : Consumer(p)
    \/ Supervisor

SupSpec == Init /\ [][NextSup]_vars

\* every goroutine of the main program keeps running: the consumers loop
\* through OnProcessTcp, the supervisor through its select, and the timer fires
SupLiveSpec ==
    /\ Init /\ [][NextSup]_vars
    /\ \A p \in Procs : WF_vars(Consumer(p))
    /\ WF_vars(Supervisor)

\* pool.go (its second Pool): get and put under the mutex, Close through closePool
NextMu ==
    \/ NewMu
    \/ \E p \in Procs : GetMu(p)
    \/ \E p \in Procs, ok \in BOOLEAN, stale \in BOOLEAN : GetFactory(p, ok, stale)
    \/ \E p \in Procs : PutMu(p)
    \/ \E p \in Procs : PutMuClose(p)
    \/ \E p \in Procs : Drop(p)
    \/ \E p \in Procs : Return(p)
    \/ \E p \in Procs : closePool(p)
    \/ \E p \in Procs : CloseMu(p)

MuSpec == Init /\ [][NextMu]_vars

\* a goroutine inside a call of this Pool takes its next step when it can
InternalMu(p) ==
    \/ \E ok \in BOOLEAN, stale \in BOOLEAN : GetFactory(p, ok, stale)
    \/ PutMuClose(p)
    \/ Return(p)
    \/ CloseMu(p)

MuLiveSpec == Init /\ [][NextMu]_vars /\ \A p \in Procs : WF_vars(InternalMu(p))

\* ============================================================== claims

\* the step with which worker p enters Get()
GetEnters(p) ==
    /\ pc[p] = "idle"
    /\ wconn[p] = NoConn
    /\ \/ pc'[p] = "get_select"
       \/ pc'[p] = "ret" /\ err'[p] = "ErrClosed"

\* C1: once a call of Close() has returned, the pool stays closed: c.conns is
\* nil and stays nil, Len() and Cap() are 0, and every Get() entered from then
\* on returns ErrClosed with no connection.
C1_ClosedForGood ==
    [][closeReturned =>
         /\ closeReturned'
         /\ conns = "nil" /\ conns' = "nil"
         /\ PoolLen' = 0 /\ PoolCap' = 0
         /\ \A p \in Procs :
               GetEnters(p) =>
                  pc'[p] = "ret" /\ err'[p] = "ErrClosed" /\ wconn'[p] = NoConn]_vars

\* a Get() entered after Close() returned has failed with ErrClosed
C1_Witness ==
    /\ closeReturned
    /\ chClosed /\ buf = <<>>
    /\ \E p \in Procs : pc[p] = "ret" /\ err[p] = "ErrClosed" /\ wconn[p] = NoConn
    /\ \A p \in Procs : pc[p] \in {"idle", "ret"}

\* C2 as stated: after a Get and the Close of its wrapper (not marked
\* unusable) with no step of another goroutine in between, Len() is what it
\* was before the Get, whatever the buffer held.
C2_LenRestoredAlways == trk.done => PoolLen = trk.pre

\* C2 amended: Len() is what it was before the Get when the idle buffer was
\* not empty; when it was empty the Get made a connection through the
\* factory and the Close put it into the buffer, so Len() is 1.
C2_LenRestoredUnlessEmpty ==
    trk.done => PoolLen = (IF trk.pre = 0 THEN 1 ELSE trk.pre)

\* a Get on an empty buffer and the Close of its wrapper, with nothing in
\* between, have left one connection in the buffer
C2_Witness == trk.done /\ trk.pre = 0 /\ PoolLen = 1 /\ conns = "ch"

\* the connections the factory made and nothing has closed
OpenConns == {c \in ConnIds : closes[c] = 0}

\* how often connection c sits in the idle buffer
InBuf(c) == Cardinality({i \in DOMAIN buf : buf[i] = c})

\* the callers holding c in a wrapper they have not closed
HeldBy(c) == {p \in Procs : wconn[p] = c /\ ~wcl[p]}

\* C3: with the limiter on, the connections of an open pool that are idle in
\* the buffer or checked out are at most maxActive, and a Get is parked only
\* while every slot is taken or has just been released.
C3_AdmittedWithinLimit ==
    (phase = "built" /\ LimiterOn /\ conns = "ch") =>
        Cardinality({c \in OpenConns : InBuf(c) > 0 \/ HeldBy(c) # {}}) <= args.maxActive

\* worker q is inside the Close() of a wrapper marked unusable
Discarding(q) == wbad[q] /\ ~wcl[q] /\ pc[q] \in {"try_close", "put_lock"}

C5_OneHolder ==
    phase = "built" =>
        \A c \in OpenConns : InBuf(c) + Cardinality(HeldBy(c)) = 1

\* C6: a Close() on a wrapper that was closed before changes neither the idle
\* buffer, nor any connection, nor the limiter, and returns AlreadyClosed.
C6_SecondCloseRejected ==
    [][\A p \in Procs :
          (/\ wcl[p]
           /\ pc[p] \in {"try_close", "put_lock", "put_closed", "put_full"}
           /\ pc'[p] # pc[p])
          => /\ buf' = buf
             /\ closes' = closes
             /\ active' = active
             /\ pc'[p] = "ret" => err'[p] = "ErrAlreadyClosed"]_vars

\* C7: whatever Close() does concurrently, a Put never sends on the channel
\* Close() has closed: the process does not panic in Put.
C7_PutNeverSendsOnClosed == crashed # "send on closed channel"

\* C8: whatever Close() does concurrently, Get never calls the factory field
\* after Close() set it to nil.
C8_NoNilFactoryCall == crashed # "nil factory call"

\* C9: the constructor called with 0 <= initialCap <= maxCap, maxCap >= 1 and
\* a factory that succeeds returns a pool, has called the factory initialCap
\* times, and Len() is initialCap.
C9_ValidArgsBuild ==
    [][(/\ phase = "new" /\ phase' # "new"
        /\ 0 <= args'.initialCap /\ args'.initialCap <= args'.maxCap
        /\ args'.maxCap >= 1
        /\ newErr' # "FactoryFillFailed")
       => /\ phase' = "built"
          /\ calls' = args'.initialCap
          /\ PoolLen' = args'.initialCap]_vars

\* the arguments C10 names as invalid
C10_BadArgs(a) ==
    \/ a.initialCap > a.maxCap
    \/ a.maxCap <= 0
    \/ a.maxActive > 0 /\ a.maxActive < a.maxCap

\* C10: the constructor called with initialCap > maxCap, or maxCap <= 0, or
\* 0 < maxActive < maxCap fails with InvalidCapacity, returns no pool and has
\* not called the factory.
C10_InvalidCapacityRejected ==
    [][(phase = "new" /\ phase' # "new" /\ C10_BadArgs(args')) =>
         /\ phase' = "failed"
         /\ newErr' = "InvalidCapacity"
         /\ calls' = 0
         /\ conns' = "nil" /\ buf' = <<>> /\ active' = 0]_vars

\* the constructor was called with initialCap > maxCap >= 1 and failed
C10_Witness ==
    /\ phase = "failed"
    /\ newErr = "InvalidCapacity"
    /\ args.maxCap >= 1
    /\ args.initialCap > args.maxCap
    /\ calls = 0

\* C11: in every state the idle buffer holds at most maxCap connections:
\* 0 <= Len() <= maxCap, whatever Get, put, wrapper Close, Reconnect and Close
\* have done.
C11_LenWithinMaxCap ==
    /\ 0 <= PoolLen /\ PoolLen <= args.maxCap
    /\ Len(buf) <= args.maxCap

\* the buffer is full while a caller is in a put and another connection is
\* checked out
C11_Witness ==
    /\ conns = "ch"
    /\ PoolLen = args.maxCap /\ args.maxCap >= 1
    /\ \E p \in Procs : pc[p] \in {"put_full", "rc_put"}

\* worker p's step completes the first Close() of its wrapper
FirstCloseDone(p) == ~wcl[p] /\ wcl'[p]

\* C12 as stated: on an open pool, where the Close() of a wrapper marked
\* unusable leaves Len() as it is, the Close() of a wrapper not marked
\* results in a strictly greater Len(); and LenActive() does not grow.
C12_UnmarkedCloseGrowsLen ==
    [][\A p \in Procs :
          (FirstCloseDone(p) /\ conns = "ch") =>
             /\ active' <= active
             /\ IF wbad[p] THEN PoolLen' = PoolLen ELSE PoolLen' > PoolLen]_vars

\* C12 amended: the Close() of a wrapper marked unusable closes the
\* connection and leaves Len() as it is; the Close() of a wrapper not marked
\* results in Len() + 1 when put finds room in the buffer and in the same
\* Len() (the connection closed) when put finds it full (Len() = maxCap at
\* that moment); LenActive() does not grow.
C12_DiscardNeverAboveReturn ==
    [][/\ \A p \in Procs :
          (FirstCloseDone(p) /\ conns = "ch") =>
             /\ active' <= active
             /\ IF wbad[p]
                THEN /\ PoolLen' = PoolLen
                     /\ closes'[wconn[p]] >= 1
                ELSE IF pc[p] = "put_lock"
                THEN /\ Len(buf) < args.maxCap
                     /\ PoolLen' = PoolLen + 1
                     /\ closes' = closes
                ELSE /\ pc[p] = "put_full"
                     /\ PoolLen' = PoolLen
                     /\ closes'[wconn[p]] >= 1
       /\ \A p \in Procs :
             (pc[p] = "put_lock" /\ pc'[p] = "put_full") => Len(buf) = args.maxCap]_vars

\* a wrapper marked unusable has been closed on an open pool whose buffer had
\* room: the connection is closed and not in the buffer
C12_Witness ==
    /\ conns = "ch" /\ PoolLen < args.maxCap
    /\ \E p \in Procs :
          /\ pc[p] = "ret" /\ wbad[p] /\ wcl[p]
          /\ closes[wconn[p]] = 1 /\ InBuf(wconn[p]) = 0

\* worker p's step is the return of a Read or Write on its wrapper
ReadWriteReturns(p) == pc[p] = "idle" /\ pc'[p] = "ret" /\ err'[p] \in IOResults

\* C13: a Read or Write that returns an error which is not a timeout, of
\* whatever kind, sets the wrapper's unusable flag; a timeout or a successful
\* call leaves the flag as it is.
C13_NonTimeoutErrorMarks ==
    [][\A p \in Procs :
          ReadWriteReturns(p) =>
             IF err'[p] \in {"ok", "timeout"}
             THEN wbad'[p] = wbad[p]
             ELSE wbad'[p]]_vars

\* the callers that have called Get
Started == {p \in Procs : pc[p] # "idle" \/ wconn[p] # NoConn}

\* the callers holding a wrapper they have not closed
Holding == {p \in Procs : wconn[p] # NoConn /\ ~wcl[p]}

\* C14: on a fresh pool with no limiter and initialCap = maxCap, while at most
\* maxCap callers have called Get, no Get reaches the factory or fails, every
\* connection returned is one of the initial ones, and once maxCap callers
\* hold one Len() is 0.
C14_FullPoolServesGets ==
    (phase = "built" /\ args.initialCap = args.maxCap
       /\ Cardinality(Started) <= args.maxCap) =>
        /\ calls = args.initialCap
        /\ \A p \in Procs :
              /\ pc[p] \notin {"get_factory", "get_acquire", "get_blocked"}
              /\ err[p] \in {"none", "nil"}
              /\ wconn[p] # NoConn => wconn[p] <= args.initialCap
        /\ Cardinality(Holding) = args.maxCap => PoolLen = 0

\* maxCap = 2 callers have each got one of the two initial connections
C14_Witness ==
    /\ phase = "built" /\ args.initialCap = args.maxCap
    /\ Cardinality(Procs) = args.maxCap
    /\ \A p \in Procs : pc[p] = "idle" /\ wconn[p] # NoConn /\ ~wcl[p]
    /\ PoolLen = 0 /\ calls = args.initialCap

\* C15, one Get: the select of a Get on a non-empty buffer returns a
\* connection of the buffer, takes Len() down by one and calls no factory; on
\* an empty buffer the Get goes to the factory, which is called once and
\* leaves Len() as it is.
C15_GetStep ==
    \A p \in Procs :
        /\ (pc[p] = "get_select" /\ pc'[p] # "get_select") =>
              IF buf # <<>>
              THEN /\ pc'[p] = "ret" /\ err'[p] = "nil"
                   /\ InBuf(wconn'[p]) > 0
                   /\ PoolLen' = PoolLen - 1
                   /\ calls' = calls
              ELSE /\ pc'[p] = "get_factory"
                   /\ PoolLen' = PoolLen /\ PoolLen = 0
                   /\ calls' = calls
        /\ (pc[p] = "get_factory" /\ pc'[p] # "get_factory") =>
              /\ calls' = calls + 1
              /\ PoolLen' = PoolLen

\* C15, the scenario: while at most initialCap callers have called Get on a
\* fresh pool, Len() is initialCap minus the wrappers held and not yet closed;
\* so it is initialCap - k after k Gets and initialCap again after the k Closes.
C15_Scenario ==
    (phase = "built" /\ Cardinality(Started) <= args.initialCap) =>
        /\ calls = args.initialCap
        /\ PoolLen = args.initialCap - Cardinality(Holding)

\* C15: both parts.
C15_GetTakesOneOrMakesOne == []C15_Scenario /\ [][C15_GetStep]_vars

\* two callers have got the two initial connections and closed their
\* wrappers: Len() is initialCap again
C15_Witness ==
    /\ phase = "built" /\ args.initialCap = Cardinality(Procs)
    /\ \A p \in Procs : pc[p] = "idle" /\ wconn[p] # NoConn /\ wcl[p]
    /\ PoolLen = args.initialCap /\ calls = args.initialCap

\* C16: a Get that returns no error returns a connection, not nil, and one
\* the pool has not closed, also when it races with Close().
C16_GetReturnsLiveConn ==
    \A p \in Procs :
        (pc[p] = "ret" /\ err[p] = "nil" /\ ~wcl[p]) =>
            /\ wconn[p] # NoConn
            /\ closes[wconn[p]] = 0

\* C17: Close() called again, after or while another Close() runs, does
\* nothing: the process does not panic closing the channel twice.
C17_CloseIdempotent == crashed # "close of closed channel"

\* C18: put(nil) returns the nil-connection error whatever the state of the
\* pool (open, full, closed, mutex held or not) and changes nothing: not the
\* buffer, not c.conns, not a connection, not the limiter.
C18_PutNilRejected ==
    [][\A p \in Procs :
          PutNil(p) =>
             /\ err'[p] = "ErrNilConn"
             /\ PoolLen' = PoolLen /\ buf' = buf
             /\ conns' = conns /\ chClosed' = chClosed
             /\ closes' = closes
             /\ active' = active]_vars

\* put(nil) has been rejected on an open pool whose buffer is full
C18_Witness ==
    /\ conns = "ch" /\ PoolLen = args.maxCap /\ args.maxCap >= 1
    /\ \E p \in Procs : pc[p] = "ret" /\ err[p] = "ErrNilConn"

\* C19: after Close() set c.conns to nil, a put of a connection finds the
\* pool closed, closes the connection, returns ErrClosed and sends nothing
\* into the buffer: Len() stays 0.
C19_PutAfterCloseClosesConn ==
    [][\A p \in Procs :
          /\ (pc[p] = "put_lock" /\ pc'[p] # "put_lock" /\ conns = "nil") =>
                /\ pc'[p] = "put_closed"
                /\ buf' = buf /\ PoolLen' = 0
          /\ (pc[p] = "put_closed" /\ pc'[p] # "put_closed") =>
                /\ conns = "nil"
                /\ pc'[p] = "ret" /\ err'[p] = "ErrClosed"
                /\ closes'[wconn[p]] >= 1
                /\ closes'[wconn[p]] >= closes[wconn[p]]
                /\ buf' = buf /\ PoolLen' = 0]_vars

\* the Close of a wrapper got before the pool was closed has closed the
\* connection and returned ErrClosed after Close() returned
C19_Witness ==
    /\ closeReturned /\ conns = "nil" /\ buf = <<>>
    /\ \E p \in Procs :
          /\ pc[p] = "ret" /\ err[p] = "ErrClosed"
          /\ wconn[p] # NoConn /\ wcl[p] /\ ~wbad[p]
          /\ closes[wconn[p]] = 1

\* C20: a put of a connection on an open pool whose buffer holds maxCap
\* connections closes the connection, releases its limiter slot, returns
\* ErrFull and leaves the buffer as it is.
C20_FullPutClosesConn ==
    [][\A p \in Procs :
          (/\ FirstCloseDone(p) /\ ~wbad[p]
           /\ conns = "ch" /\ ~chClosed
           /\ \/ pc[p] = "put_full"
              \/ pc[p] = "idle" /\ Len(buf) = args.maxCap)
          => /\ closes'[wconn[p]] >= 1
             /\ err'[p] = "ErrFull"
             /\ buf' = buf
             /\ active' = Release(active)]_vars

\* C21: a constructor whose i-th fill call fails (1 <= i <= initialCap) has
\* failed with FactoryFillFailed and returned no pool, every one of the i-1
\* connections made before is closed, once, and no limiter slot is taken: no
\* connection stays open.
C21_FillFailureClosesAll ==
    (phase = "failed" /\ newErr = "FactoryFillFailed") =>
        /\ calls >= 1 /\ calls <= args.initialCap
        /\ conns = "nil" /\ buf = <<>>
        /\ \A c \in ConnIds : c < calls => closes[c] = 1
        /\ OpenConns = {}
        /\ active = 0

\* no call of put, Put, Close or Destroy is in progress
NoPutOrClose == \A p \in Procs : pc[p] \in {"idle", "ret", "get_select", "get_factory"}

\* C22: once a call of Close() has returned and no put is in progress, every
\* connection that is not checked out (it was idle in the buffer when Close()
\* swapped it out, or was handed to put) is closed, once; none is open in the
\* buffer.
C22_CloseLeaksNothing ==
    (closeReturned /\ crashed = "no" /\ NoPutOrClose) =>
        /\ \A c \in ConnIds : InBuf(c) > 0 => closes[c] >= 1
        /\ \A c \in ConnIds :
              (closes[c] # NotMade /\ HeldBy(c) = {}) => closes[c] = 1

\* worker p is inside a Get() that has not returned
InGet(p) == pc[p] \in {"get_select", "get_acquire", "get_blocked", "get_factory"}

\* C23: once Close() has swapped out the idle buffer (c.conns is nil), a
\* Get() that had started and not returned returns ErrClosed and no
\* connection, as every later Get() does.
C23_CloseCancelsGets ==
    [][\A p \in Procs :
          (conns = "nil" /\ InGet(p) /\ pc'[p] = "ret") =>
             /\ err'[p] = "ErrClosed"
             /\ wconn'[p] = NoConn]_vars

\* worker p's call has run so far with no step of another goroutine in between
Alone(p) == trk.who = p /\ ~trk.done

C25_ResignalNeverBlocks == pc[Sup] = "sup_send" => Len(reconn_chan) < ChanCap

RECURSIVE SeqSum(_)
\* the sum of the counts queued in a channel
SeqSum(q) == IF q = <<>> THEN 0 ELSE Head(q) + SeqSum(Tail(q))

\* the Reconnect attempts left in the batch the supervisor is working on
BatchLeft == IF pc[Sup] = "sup_batch" THEN count - idx[Sup] ELSE 0

\* C26, the steps: a batch of N makes the supervisor call Reconnect N times,
\* one call for each turn of the loop, and the loop ends after the N-th.
C26_BatchStep ==
    /\ (pc[Sup] = "sup_batch" /\ idx'[Sup] # idx[Sup] /\ pc'[Sup] = "sup_batch") =>
          /\ idx[Sup] < count /\ idx'[Sup] = idx[Sup] + 1
          /\ reconnected' + need_reconnect' = reconnected + need_reconnect + 1
    /\ (pc[Sup] = "sup_batch" /\ pc'[Sup] # "sup_batch") => idx[Sup] = count
    /\ (pc[Sup] # "sup_batch" /\ pc'[Sup] = "sup_batch") =>
          idx'[Sup] = 0 /\ count' >= 1

\* C26, the balance: the lost connections signalled are the Reconnect calls
\* that succeeded, plus the pending counter, plus the counts queued in the
\* signal channel, plus the attempts left in the batch; pending is not negative.
C26_Balance ==
    /\ signalled = reconnected + need_reconnect + SeqSum(reconn_chan) + BatchLeft
    /\ need_reconnect >= 0
    /\ BatchLeft >= 0

\* C26: both parts.
C26_NoRequestLost == []C26_Balance /\ [][C26_BatchStep]_vars

\* two lost connections, both Reconnects failed, the timer sent the count 2,
\* and of that batch of two the first Reconnect succeeded and one is left
C26_Witness ==
    /\ signalled = 2 /\ reconnected = 1
    /\ pc[Sup] = "sup_batch" /\ count = 2 /\ idx[Sup] = 1
    /\ need_reconnect = 0 /\ reconn_chan = <<>>

\* a step in which a factory call fails or a consumer signals a lost connection
NewFailure ==
    \/ signalled' # signalled
    \/ idx'[Sup] # idx[Sup] /\ err'[Sup] = "ErrFactory"
    \/ \E p \in Procs : pc[p] = "get_factory" /\ err'[p] = "ErrFactory"

\* C27: if from some point on no factory call fails and no consumer signals
\* a lost connection, then, every goroutine being scheduled fairly, the
\* supervisor reaches pending = 0 with an empty signal channel and stays
\* there, whatever the idle buffer holds.
C27_ReplacementCompletes ==
    (<>[][~NewFailure]_vars) => <>[](need_reconnect = 0 /\ reconn_chan = <<>>)


\* no operation in progress on an open pool that has the limiter
Quiescent ==
    /\ Running
    /\ conns = "ch"
    /\ LimiterOn
    /\ mu = NoProc
    /\ \A p \in Procs : pc[p] \in {"idle", "ret"}

\* C28: with the limiter enabled, in every quiescent state of an open pool
\* LenActive() equals Len() plus the number of wrappers checked out and not
\* yet closed: no admission slot is leaked and none is released twice.
C28_ActiveIsIdlePlusHeld ==
    Quiescent => LenActive = PoolLen + Cardinality(Holding)


\* the factory call of p's Get returns an error: the call is counted and no
\* connection is created
FactoryFails(p) ==
    /\ pc[p] = "get_factory"
    /\ pc'[p] = "ret"
    /\ calls' = calls + 1
    /\ closes' = closes

\* C29: a Get() on an open pool that fails because the factory fails returns
\* the factory's error and no connection, and leaves the pool as it was: the
\* idle buffer and the open state are untouched, and when nothing else ran
\* since the Get began, Len() and LenActive() are what they were before it
\* (the admission slot taken for the attempt is released).
C29_FailedGetLeavesPool ==
    [][\A p \in Procs : (conns = "ch" /\ FactoryFails(p)) =>
          /\ err'[p] = "ErrFactory"
          /\ wconn'[p] = NoConn
          /\ buf' = buf
          /\ conns' = "ch"
          /\ chClosed' = chClosed
          /\ factory' = factory
          /\ Alone(p) => (PoolLen' = trk.pre /\ LenActive' = trk.act)]_vars

\* a Get on an open pool with the limiter has just failed in the factory: the
\* caller holds nothing and every admitted slot is an idle connection
C29_Witness ==
    /\ conns = "ch"
    /\ LimiterOn
    /\ \E p \in Procs :
          /\ pc[p] = "ret"
          /\ err[p] = "ErrFactory"
          /\ wconn[p] = NoConn
    /\ Holding = {}
    /\ LenActive = PoolLen


\* p is about to close a raw connection, call the factory or wait for an
\* admission slot
Blocking(p) ==
    pc[p] \in {"put_closed", "put_full", "try_close", "close_drain",
               "get_factory", "rc_factory", "get_acquire", "get_blocked"}

\* C30: no thread holds the pool mutex while it performs a blocking call: a
\* thread that is closing a raw connection, calling the factory or waiting for
\* an admission slot does not hold the mutex.
C30_NoMutexAcrossBlockingCall ==
    \A p \in Procs : Blocking(p) => mu # p


\* p is inside a call of Close()
InClose(p) ==
    pc[p] \in {"close_chan", "close_drain", "cp_defer", "cp_defer_nil",
               "cp_parked", "cp_parked_nil", "close_range"}

\* C31: Close() always terminates and leaves the mutex free: a goroutine
\* inside Close() leaves it after finitely many steps (unless the process has
\* panicked), and it does not hold the mutex when it has.
C31_CloseTerminates ==
    \A p \in Procs :
        InClose(p) ~> ((~InClose(p) /\ mu # p) \/ crashed # "no")

====
